---- MODULE Spec2Model ----
(***************************************************************************)
(* A model of the reflection-driven mapping engine of gopub/sqlx: the      *)
(* Table facade (Insert, Update, Save, Select, SelectOne, Delete), its     *)
(* query builder and its value codec.                                      *)
(*                                                                         *)
(* Representation.  A record is a function from column names to naturals;  *)
(* a natural stands for a Go value of the field's kind and 0 is the kind's *)
(* zero value (0, false, 0.0, "", a nil slice).  For a slice, 1 is the     *)
(* empty non-nil slice, 2 a slice with one element and 3 a slice that      *)
(* encoding/json cannot serialize (it holds a NaN).  A SQL statement is    *)
(* the sequence of the string pieces the code writes into its buffer.  A   *)
(* driver parameter or a fetched cell is NULL, a scalar or a byte string.  *)
(***************************************************************************)
EXTENDS Integers, Sequences, FiniteSets, TLC

\* Bounds of the model.
MaxInt == 2      \* integer fields and last-inserted ids range over 0..MaxInt
MaxRows == 2     \* rows a cursor returns to one Select
MaxLen == 3      \* length of the caller's collection

VARIABLES
    table,       \* the Table: name, driverName and the record type it maps
    record,      \* the caller's record, passed to Insert / Update / Save
    preRecord,   \* the record as it was when the last write operation began
    exec,        \* what the executor's Exec did in the last write operation
    readResult,  \* whether the last operation called result.LastInsertId()
    wroteBack,   \* whether the last operation set the auto-increment field
    pred,        \* the predicate (where, args) the caller passes
    op,          \* the last operation
    ret,         \* what it returned: "nil", an error, or "panic"
    calls,       \* the calls the last operation made on the executor
    records,     \* the caller's collection, passed to Select
    preRecords,  \* the collection as it was when the last Select began
    target,      \* the caller's value, passed to SelectOne
    preTarget,   \* the target as it was when the last SelectOne began
    cursor,      \* what the executor's query did in the last read: err, rows
    initialLen,  \* the length of the collection before the first Select
    returned     \* rows returned by the successful Selects so far

vars == <<table, record, preRecord, exec, readResult, wroteBack, pred, op, ret, calls,
          records, preRecords, target, preTarget, cursor, initialLen, returned>>

writeVars == <<record, preRecord, exec, readResult, wroteBack>>
readVars == <<records, preRecords, target, preTarget, cursor, initialLen, returned>>

-----------------------------------------------------------------------------
\* Record types and their column metadata.

StructTypes == {"User", "Metric", "Device", "Event"}

\* The fields of each record type with their kinds and column options.
\* User is the record type of the specification's end-to-end scenario.
StructFields(typ) ==
    CASE typ = "User" ->
           << [name |-> "id", kind |-> "int", opts |-> {"auto_increment", "primary key"}],
              [name |-> "name", kind |-> "string", opts |-> {}],
              [name |-> "tags", kind |-> "slice", opts |-> {"json", "nullable"}] >>
      [] typ = "Metric" ->
           << [name |-> "n", kind |-> "int", opts |-> {"nullable"}],
              [name |-> "u", kind |-> "uint", opts |-> {"nullable"}],
              [name |-> "b", kind |-> "bool", opts |-> {"nullable"}],
              [name |-> "f", kind |-> "float", opts |-> {"nullable"}],
              [name |-> "s", kind |-> "string", opts |-> {"nullable"}] >>
      [] typ = "Device" ->
           << [name |-> "uid", kind |-> "int", opts |-> {"primary key"}],
              [name |-> "slot", kind |-> "int", opts |-> {"primary key", "nullable"}],
              [name |-> "label", kind |-> "string", opts |-> {}] >>
      [] typ = "Event" ->
           << [name |-> "kind", kind |-> "string", opts |-> {"primary key"}],
              [name |-> "seq", kind |-> "int", opts |-> {"auto_increment"}],
              [name |-> "payload", kind |-> "slice", opts |-> {"json"}] >>

\* The table name of each record type (pluralized snake case of the type name).
getTableNameByType(typ) ==
    CASE typ = "User" -> "users"
      [] typ = "Metric" -> "metrics"
      [] typ = "Device" -> "devices"
      [] typ = "Event" -> "events"

NamesWith(fs, opt) ==
    LET sel == SelectSeq(fs, LAMBDA f : opt \in f.opts)
    IN  [i \in 1..Len(sel) |-> sel[i].name]

NamesWithout(fs, opt) ==
    LET sel == SelectSeq(fs, LAMBDA f : opt \notin f.opts)
    IN  [i \in 1..Len(sel) |-> sel[i].name]

\* The column metadata derived from a record type.
parseColumnInfo(typ) ==
    LET fs == StructFields(typ)
        ai == NamesWith(fs, "auto_increment")
    IN  [ typ           |-> typ,
          names         |-> [i \in 1..Len(fs) |-> fs[i].name],
          kinds         |-> [c \in {fs[i].name : i \in 1..Len(fs)} |->
                                (CHOOSE f \in {fs[i] : i \in 1..Len(fs)} : f.name = c).kind],
          aiName        |-> IF ai = <<>> THEN "" ELSE ai[1],
          notAINames    |-> NamesWithout(fs, "auto_increment"),
          pkNames       |-> NamesWith(fs, "primary key"),
          notPKNames    |-> NamesWithout(fs, "primary key"),
          jsonNames     |-> NamesWith(fs, "json"),
          nullableNames |-> NamesWith(fs, "nullable") ]

\* The metadata cache: derived once per type.
columnInfoCache == [typ \in StructTypes |-> parseColumnInfo(typ)]

getColumnInfo(typ) == columnInfoCache[typ]

\* The values a field of each kind takes in the model.
KindValues(kind) ==
    CASE kind = "int" -> 0..MaxInt
      [] kind = "slice" -> 0..3
      [] OTHER -> 0..1

Columns(typ) == DOMAIN getColumnInfo(typ).kinds

Recs(typ) ==
    { r \in [Columns(typ) -> 0..(IF MaxInt > 3 THEN MaxInt ELSE 3)] :
        \A c \in Columns(typ) : r[c] \in KindValues(getColumnInfo(typ).kinds[c]) }

ZeroRec(typ) == [c \in Columns(typ) |-> 0]

\* utils.IndexOfString(list, s) >= 0
HasString(list, s) == \E i \in 1..Len(list) : list[i] = s

\* utils.IndexOfString(list, s), counted from 1
IndexOfString(list, s) == CHOOSE i \in 1..Len(list) : list[i] = s

-----------------------------------------------------------------------------
\* Value codec, write direction.

Null == [t |-> "null", v |-> 0, s |-> ""]
Val(v) == [t |-> "val", v |-> v, s |-> ""]
Bytes(s) == [t |-> "bytes", v |-> 0, s |-> s]

\* json.Marshal of a slice field.
Marshal(k) ==
    CASE k = 0 -> [err |-> FALSE, data |-> "null"]
      [] k = 1 -> [err |-> FALSE, data |-> "[]"]
      [] k = 2 -> [err |-> FALSE, data |-> "[1]"]
      [] OTHER -> [err |-> TRUE, data |-> ""]

isEmpty(jsonData) == jsonData \in {"{}", "[]", "null", "NULL"}

getFieldValueByName(item, info, name) ==
    LET k == item[name]
    IN  IF HasString(info.jsonNames, name)
        THEN LET m == Marshal(k)
             IN  IF m.err THEN [err |-> TRUE, p |-> Null]
                 ELSE IF HasString(info.nullableNames, name) /\ isEmpty(m.data)
                      THEN [err |-> FALSE, p |-> Null]
                      ELSE [err |-> FALSE, p |-> Bytes(m.data)]
        ELSE IF HasString(info.nullableNames, name) /\ k = 0
             THEN [err |-> FALSE, p |-> Null]
             ELSE [err |-> FALSE, p |-> Val(k)]

-----------------------------------------------------------------------------
\* Query builder.

RECURSIVE Join(_, _)
\* strings.Join(list, sep)
Join(list, sep) ==
    IF list = <<>> THEN <<>>
    ELSE IF Len(list) = 1 THEN <<list[1]>>
    ELSE <<list[1], sep>> \o Join(Tail(list), sep)

RECURSIVE Repeat(_, _)
\* strings.Repeat(piece, n)
Repeat(piece, n) == IF n = 0 THEN <<>> ELSE piece \o Repeat(piece, n - 1)

\* buf.Truncate(buf.Len() - 2): the last piece written is two characters long
\* (", " after a placeholder, " (" when there is no placeholder).
Truncate2(buf) == SubSeq(buf, 1, Len(buf) - 1)

RECURSIVE Assignments(_, _)
\* the loop writing "c = ?" for each column, separated by sep
Assignments(list, sep) ==
    IF list = <<>> THEN <<>>
    ELSE IF Len(list) = 1 THEN <<list[1], " = ?">>
    ELSE <<list[1], " = ?", sep>> \o Assignments(Tail(list), sep)

\* strings.Replace(query, old, new, 1)
ReplaceFirst(query, old, new) ==
    IF \E i \in 1..Len(query) : query[i] = old
    THEN LET i == CHOOSE j \in 1..Len(query) :
                      query[j] = old /\ \A l \in 1..(j - 1) : query[l] # old
         IN  [query EXCEPT ![i] = new]
    ELSE query

\* The parameters of a list of columns: the loop calling getFieldValueByName,
\* which returns at the first column that fails to encode.
EncodeAll(item, info, columns) ==
    LET enc == [i \in 1..Len(columns) |-> getFieldValueByName(item, info, columns[i])]
    IN  [ err    |-> \E i \in 1..Len(columns) : enc[i].err,
          values |-> [i \in 1..Len(columns) |-> enc[i].p] ]

aiIsZero(info, item) == info.aiName # "" /\ item[info.aiName] = 0

\* prepareInsertQuery listing every column whatever the auto-increment field holds.
prepareInsertQueryAllColumns(t, item) ==
    LET info == getColumnInfo(t.typ)
        columns == info.names
        enc == EncodeAll(item, info, columns)
    IN  [ err    |-> enc.err,
          values |-> enc.values,
          query  |-> Truncate2(<<"INSERT INTO", " ", t.name, "(">>
                               \o Join(columns, ", ")
                               \o <<") VALUES", " (">>
                               \o Repeat(<<"?", ", ">>, Len(columns)))
                     \o <<")">> ]

prepareInsertQuery(t, item) ==
    LET info == getColumnInfo(t.typ)
        columns == IF aiIsZero(info, item) THEN info.notAINames ELSE info.names
        enc == EncodeAll(item, info, columns)
    IN  [ err    |-> enc.err,
          values |-> enc.values,
          query  |-> Truncate2(<<"INSERT INTO", " ", t.name, "(">>
                               \o Join(columns, ", ")
                               \o <<") VALUES", " (">>
                               \o Repeat(<<"?", ", ">>, Len(columns)))
                     \o <<")">> ]

Exec(query, args) == [m |-> "Exec", q |-> query, a |-> args]
Query(query, args) == [m |-> "Query", q |-> query, a |-> args]
QueryRow(query, args) == [m |-> "QueryRow", q |-> query, a |-> args]

\* What an operation leaves behind.
Outcome(item, r, cs, rd, wr) ==
    [record |-> item, ret |-> r, calls |-> cs, readResult |-> rd, wroteBack |-> wr]

\* The outcomes of the executor's Exec: x.err, the error of Exec (its result
\* is then nil, as database/sql returns it); x.id and x.idErr, what the
\* result's LastInsertId returns.
ExecOutcomes ==
    { [err |-> TRUE, id |-> 0, idErr |-> FALSE], [err |-> FALSE, id |-> 0, idErr |-> TRUE] }
    \cup { [err |-> FALSE, id |-> i, idErr |-> FALSE] : i \in 0..MaxInt }

\* The back-write of the generated id; result is nil when Exec failed.
LastInsertId(item, info, x, cs, after) ==
    IF x.err THEN Outcome(item, "panic", cs, TRUE, FALSE)
    ELSE IF x.idErr THEN Outcome(item, "err:lastinsertid", cs, TRUE, FALSE)
    ELSE Outcome([item EXCEPT ![info.aiName] = x.id], after, cs, TRUE, TRUE)

Insert(t, item, x) ==
    LET q == prepareInsertQuery(t, item)
        info == getColumnInfo(t.typ)
        cs == <<Exec(q.query, q.values)>>
    IN  IF q.err THEN Outcome(item, "err:encode", <<>>, FALSE, FALSE)
        ELSE IF x.err THEN Outcome(item, "err:exec", cs, FALSE, FALSE)
        ELSE IF aiIsZero(info, item) THEN LastInsertId(item, info, x, cs, "nil")
        ELSE Outcome(item, "nil", cs, FALSE, FALSE)

Update(t, item, x) ==
    LET info == getColumnInfo(t.typ)
        query == <<"UPDATE ", t.name, " SET ">>
                 \o Assignments(info.notPKNames, ", ")
                 \o <<" WHERE ">>
                 \o Assignments(info.pkNames, " and ")
        enc == EncodeAll(item, info, info.notPKNames)
        args == enc.values \o [i \in 1..Len(info.pkNames) |-> Val(item[info.pkNames[i]])]
    IN  IF info.pkNames = <<>> THEN Outcome(item, "panic", <<>>, FALSE, FALSE)
        ELSE IF enc.err THEN Outcome(item, "err:encode", <<>>, FALSE, FALSE)
        ELSE Outcome(item, IF x.err THEN "err:exec" ELSE "nil", <<Exec(query, args)>>, FALSE, FALSE)

mysqlSave(t, item, x) ==
    LET q == prepareInsertQuery(t, item)
        info == getColumnInfo(t.typ)
        enc == EncodeAll(item, info, info.names)
        query == q.query \o <<" ON DUPLICATE KEY UPDATE ">> \o Assignments(info.names, ", ")
        cs == <<Exec(query, q.values \o enc.values)>>
        err == IF x.err THEN "err:exec" ELSE "nil"
    IN  IF q.err \/ enc.err THEN Outcome(item, "err:encode", <<>>, FALSE, FALSE)
        ELSE IF aiIsZero(info, item) THEN LastInsertId(item, info, x, cs, err)
        ELSE Outcome(item, err, cs, FALSE, FALSE)

sqliteSave(t, item, x) ==
    LET q == prepareInsertQuery(t, item)
        info == getColumnInfo(t.typ)
        query == ReplaceFirst(q.query, "INSERT INTO", "INSERT OR REPLACE INTO")
        cs == <<Exec(query, q.values)>>
        err == IF x.err THEN "err:exec" ELSE "nil"
    IN  IF q.err THEN Outcome(item, "err:encode", <<>>, FALSE, FALSE)
        ELSE IF aiIsZero(info, item) THEN LastInsertId(item, info, x, cs, err)
        ELSE Outcome(item, err, cs, FALSE, FALSE)

\* Save treating every driver it does not know as sqlite3.
SaveDefaultsToSqlite(t, item, x) ==
    CASE t.driverName = "mysql" -> mysqlSave(t, item, x)
      [] OTHER -> sqliteSave(t, item, x)

Save(t, item, x) ==
    CASE t.driverName = "mysql" -> mysqlSave(t, item, x)
      [] t.driverName = "sqlite3" -> sqliteSave(t, item, x)
      [] OTHER -> Outcome(item, "panic", <<>>, FALSE, FALSE)

\* The predicates callers pass, with their positional arguments.
Predicates == { [where |-> "", args |-> <<>>],
                [where |-> "k = ?", args |-> <<Val(1)>>] }

NoPredicate == [where |-> "", args |-> <<>>]

\* Delete without the check of the predicate.
DeleteUnguarded(t, item, where, args, x) ==
    LET query == <<"DELETE FROM ", t.name, " WHERE ", where>>
    IN  Outcome(item, IF x.err THEN "err:exec" ELSE "nil", <<Exec(query, args)>>, FALSE, FALSE)

Delete(t, item, where, args, x) ==
    LET query == <<"DELETE FROM ", t.name, " WHERE ", where>>
    IN  IF where = "" THEN Outcome(item, "panic", <<>>, FALSE, FALSE)
        ELSE Outcome(item, IF x.err THEN "err:exec" ELSE "nil", <<Exec(query, args)>>, FALSE, FALSE)

-----------------------------------------------------------------------------
\* The write operations as actions on the caller's record.

Tables == { [name |-> getTableNameByType(typ), driverName |-> d, typ |-> typ] :
              typ \in StructTypes, d \in {"mysql", "sqlite3", "postgres"} }

Init ==
    /\ table \in Tables
    /\ record \in Recs(table.typ)
    /\ preRecord = record
    /\ exec = [err |-> FALSE, id |-> 0, idErr |-> FALSE]
    /\ readResult = FALSE
    /\ wroteBack = FALSE
    /\ pred = NoPredicate
    /\ op = "none"
    /\ ret = "nil"
    /\ calls = <<>>
    /\ records = <<>>
    /\ preRecords = <<>>
    /\ target = ZeroRec(table.typ)
    /\ preTarget = target
    /\ cursor = [err |-> FALSE, rows |-> <<>>]
    /\ initialLen = 0
    /\ returned = 0

Wrote(name, p, x, out) ==
    /\ op' = name
    /\ pred' = p
    /\ exec' = x
    /\ preRecord' = record
    /\ record' = out.record
    /\ ret' = out.ret
    /\ calls' = out.calls
    /\ readResult' = out.readResult
    /\ wroteBack' = out.wroteBack
    /\ UNCHANGED <<table, readVars>>

DoInsert == \E x \in ExecOutcomes : Wrote("Insert", NoPredicate, x, Insert(table, record, x))

DoUpdate == \E x \in ExecOutcomes : Wrote("Update", NoPredicate, x, Update(table, record, x))

DoSave == \E x \in ExecOutcomes : Wrote("Save", NoPredicate, x, Save(table, record, x))

DoDelete ==
    \E x \in ExecOutcomes, p \in Predicates :
        Wrote("Delete", p, x, Delete(table, record, p.where, p.args, x))

Next == DoInsert \/ DoUpdate \/ DoSave \/ DoDelete

Spec == Init /\ [][Next]_vars

-----------------------------------------------------------------------------
\* Value codec, read direction.

\* json.Unmarshal of a fetched byte string into a slice field; a NULL cell
\* is fetched as nil bytes, written "" here.
Unmarshal(data) ==
    CASE data = "null" -> [err |-> FALSE, v |-> 0]
      [] data = "[]" -> [err |-> FALSE, v |-> 1]
      [] data = "[1]" -> [err |-> FALSE, v |-> 2]
      [] OTHER -> [err |-> TRUE, v |-> 0]

\* The destination bound for a column before the row is fetched.
BindField(info, name) ==
    IF HasString(info.jsonNames, name) THEN "[]byte"
    ELSE IF HasString(info.nullableNames, name)
         THEN CASE info.kinds[name] \in {"int", "uint"} -> "NullInt64"
                [] info.kinds[name] = "bool" -> "NullBool"
                [] info.kinds[name] = "float" -> "NullFloat64"
                [] info.kinds[name] = "string" -> "NullString"
                [] OTHER -> "invalid nullable type"
         ELSE "field"

\* rows.Scan of one cell into its destination (database/sql's convertAssign):
\* NULL into a plain field is an error, into []byte nil, into a nullable
\* wrapper Valid = false.
ScanCell(holder, cell) ==
    CASE holder = "[]byte" ->
           [err |-> cell.t = "val", valid |-> cell.t = "bytes", v |-> 0, data |-> cell.s]
      [] holder = "field" ->
           [err |-> cell.t # "val", valid |-> cell.t = "val", v |-> cell.v, data |-> ""]
      [] OTHER ->
           [err |-> cell.t = "bytes", valid |-> cell.t = "val", v |-> cell.v, data |-> ""]

RECURSIVE UnmarshalJSON(_, _, _)
\* The loop over jsonNames after the fetch: stops at the first failure.
UnmarshalJSON(names, got, elem) ==
    IF names = <<>> THEN [st |-> "ok", elem |-> elem]
    ELSE LET u == Unmarshal(got[names[1]].data)
         IN  IF u.err THEN [st |-> "err:json", elem |-> elem]
             ELSE UnmarshalJSON(Tail(names), got, [elem EXCEPT ![names[1]] = u.v])

\* reflect's SetString / SetFloat / SetBool / SetInt accept the field's kind.
SetAccepts(holder, kind) ==
    CASE holder = "NullString" -> kind = "string"
      [] holder = "NullFloat64" -> kind = "float"
      [] holder = "NullBool" -> kind = "bool"
      [] holder = "NullInt64" -> kind = "int"
      [] OTHER -> FALSE

RECURSIVE CopyNullable(_, _, _, _)
\* The loop over nullableNames after the fetch: the type switch on the
\* destination, whose default case panics, and the reflect setter.
CopyNullable(names, info, got, elem) ==
    IF names = <<>> THEN [st |-> "ok", elem |-> elem]
    ELSE LET name == names[1]
             holder == BindField(info, name)
         IN  IF holder \notin {"NullString", "NullFloat64", "NullBool", "NullInt64"}
             THEN [st |-> "panic", elem |-> elem]
             ELSE IF ~got[name].valid
                  THEN CopyNullable(Tail(names), info, got, elem)
                  ELSE IF ~SetAccepts(holder, info.kinds[name])
                       THEN [st |-> "panic", elem |-> elem]
                       ELSE CopyNullable(Tail(names), info, got,
                                         [elem EXCEPT ![name] = got[name].v])

\* Decoding one fetched row into a freshly allocated record.
DecodeRow(info, row) ==
    LET cols == DOMAIN info.kinds
        holder == [c \in cols |-> BindField(info, c)]
        got == [c \in cols |-> ScanCell(holder[c], row[c])]
        fresh == [c \in cols |-> IF holder[c] = "field" THEN got[c].v ELSE 0]
        js == UnmarshalJSON(info.jsonNames, got, fresh)
    IN  IF \E c \in cols : holder[c] = "invalid nullable type"
        THEN [st |-> "panic", elem |-> [c \in cols |-> 0]]
        ELSE IF \E c \in cols : got[c].err
             THEN [st |-> "err:scan", elem |-> [c \in cols |-> 0]]
             ELSE IF js.st # "ok" THEN js
                  ELSE CopyNullable(info.nullableNames, info, got, js.elem)

-----------------------------------------------------------------------------
\* The rows a cursor may hold.

\* The records whose stored rows the cursors hold: the zero record, the
\* record with every field of a kind other than unsigned integer set, and the
\* record with only its unsigned integer fields set.
SampleRecs(typ) ==
    LET kinds == getColumnInfo(typ).kinds
        set(c) == IF kinds[c] = "slice" THEN 2 ELSE 1
    IN  { ZeroRec(typ),
          [c \in Columns(typ) |-> IF kinds[c] # "uint" THEN set(c) ELSE 0],
          [c \in Columns(typ) |-> IF kinds[c] = "uint" THEN set(c) ELSE 0] }

\* The row the write path stores for a record.
StoredRow(typ, r) ==
    [c \in Columns(typ) |-> getFieldValueByName(r, getColumnInfo(typ), c).p]

\* A row the write path never stores: a JSON column holding text that is not
\* JSON or, for a type without JSON column, a NULL in the first column bound
\* directly to its field.
ForeignRows(typ) ==
    LET info == getColumnInfo(typ)
        zero == StoredRow(typ, ZeroRec(typ))
        direct == SelectSeq(info.names, LAMBDA c : BindField(info, c) = "field")
    IN  IF info.jsonNames # <<>> THEN { [zero EXCEPT ![info.jsonNames[1]] = Bytes("{")] }
        ELSE { [zero EXCEPT ![direct[i]] = Null] : i \in {1} \cap DOMAIN direct }

Rows == [typ \in StructTypes |->
            { StoredRow(typ, r) : r \in SampleRecs(typ) } \cup ForeignRows(typ)]

\* What the executor's query does: it fails, or its cursor holds up to n rows.
QueryOutcomes(typ, n) ==
    { [err |-> TRUE, rows |-> <<>>] }
    \cup { [err |-> FALSE, rows |-> rs] : rs \in UNION { [1..k -> Rows[typ]] : k \in 0..n } }

SelectOutcomes == [typ \in StructTypes |-> QueryOutcomes(typ, MaxRows)]

SelectOneOutcomes == [typ \in StructTypes |-> QueryOutcomes(typ, 1)]

SelectQuery(t, info, where) ==
    <<"SELECT ">> \o Join(info.names, ", ") \o <<" FROM ", t.name>>
    \o (IF where # "" THEN <<" WHERE ", where>> ELSE <<>>)

RECURSIVE FetchAll(_, _, _)
\* The rows.Next() loop: one fresh record per row, appended to the slice.
FetchAll(info, rows, sliceValue) ==
    IF rows = <<>> THEN [st |-> "ok", slice |-> sliceValue]
    ELSE LET d == DecodeRow(info, rows[1])
         IN  IF d.st # "ok" THEN [st |-> d.st, slice |-> sliceValue]
             ELSE FetchAll(info, Tail(rows), Append(sliceValue, d.elem))

\* Select starting from an empty slice instead of the caller's.
SelectClears(t, coll, where, args, qr) ==
    LET info == getColumnInfo(t.typ)
        cs == <<Query(SelectQuery(t, info, where), args)>>
        f == FetchAll(info, qr.rows, <<>>)
    IN  IF qr.err THEN [records |-> coll, ret |-> "err:query", calls |-> cs]
        ELSE IF f.st # "ok" THEN [records |-> coll, ret |-> f.st, calls |-> cs]
        ELSE [records |-> f.slice, ret |-> "nil", calls |-> cs]

Select(t, coll, where, args, qr) ==
    LET info == getColumnInfo(t.typ)
        cs == <<Query(SelectQuery(t, info, where), args)>>
        f == FetchAll(info, qr.rows, coll)
    IN  IF qr.err THEN [records |-> coll, ret |-> "err:query", calls |-> cs]
        ELSE IF f.st # "ok" THEN [records |-> coll, ret |-> f.st, calls |-> cs]
        ELSE [records |-> f.slice, ret |-> "nil", calls |-> cs]

\* SelectOne copying its scratch instance into the target whatever happened.
SelectOneAlwaysCopies(t, tgt, where, args, qr) ==
    LET info == getColumnInfo(t.typ)
        cs == <<QueryRow(SelectQuery(t, info, where), args)>>
        d == DecodeRow(info, qr.rows[1])
        scratch == ZeroRec(t.typ)
    IN  IF qr.err THEN [target |-> scratch, ret |-> "err:query", calls |-> cs]
        ELSE IF qr.rows = <<>> THEN [target |-> scratch, ret |-> "sql.ErrNoRows", calls |-> cs]
        ELSE IF d.st # "ok" THEN [target |-> d.elem, ret |-> d.st, calls |-> cs]
        ELSE [target |-> d.elem, ret |-> "nil", calls |-> cs]

SelectOne(t, tgt, where, args, qr) ==
    LET info == getColumnInfo(t.typ)
        cs == <<QueryRow(SelectQuery(t, info, where), args)>>
        d == DecodeRow(info, qr.rows[1])
    IN  IF \E c \in DOMAIN info.kinds : BindField(info, c) = "invalid nullable type"
        THEN [target |-> tgt, ret |-> "panic", calls |-> <<>>]
        ELSE IF qr.err THEN [target |-> tgt, ret |-> "err:query", calls |-> cs]
        ELSE IF qr.rows = <<>> THEN [target |-> tgt, ret |-> "sql.ErrNoRows", calls |-> cs]
        ELSE IF d.st # "ok" THEN [target |-> tgt, ret |-> d.st, calls |-> cs]
        ELSE [target |-> d.elem, ret |-> "nil", calls |-> cs]

-----------------------------------------------------------------------------
\* The read operations as actions on the caller's collection and target.

InitRead ==
    /\ table \in {t \in Tables : t.driverName = "sqlite3"}
    /\ record = ZeroRec(table.typ)
    /\ preRecord = record
    /\ exec = [err |-> FALSE, id |-> 0, idErr |-> FALSE]
    /\ readResult = FALSE
    /\ wroteBack = FALSE
    /\ pred \in Predicates
    /\ op = "none"
    /\ ret = "nil"
    /\ calls = <<>>
    /\ records \in {<<>>} \cup {<<r>> : r \in SampleRecs(table.typ)}
    /\ preRecords = records
    /\ target \in SampleRecs(table.typ)
    /\ preTarget = target
    /\ cursor = [err |-> FALSE, rows |-> <<>>]
    /\ initialLen = Len(records)
    /\ returned = 0

DoSelect ==
    \E qr \in SelectOutcomes[table.typ] :
        LET out == Select(table, records, pred.where, pred.args, qr)
        IN  /\ Len(records) + Len(qr.rows) <= MaxLen
            /\ op' = "Select"
            /\ cursor' = qr
            /\ preRecords' = records
            /\ preTarget' = target
            /\ records' = out.records
            /\ ret' = out.ret
            /\ calls' = out.calls
            /\ returned' = IF out.ret = "nil" THEN returned + Len(qr.rows) ELSE returned
            /\ UNCHANGED <<table, writeVars, pred, target, initialLen>>

DoSelectOne ==
    \E qr \in SelectOneOutcomes[table.typ] :
        LET out == SelectOne(table, target, pred.where, pred.args, qr)
        IN  /\ op' = "SelectOne"
            /\ cursor' = qr
            /\ preRecords' = records
            /\ preTarget' = target
            /\ target' = out.target
            /\ ret' = out.ret
            /\ calls' = out.calls
            /\ UNCHANGED <<table, writeVars, pred, records, initialLen, returned>>

NextRead == DoSelect \/ DoSelectOne

SpecRead == InitRead /\ [][NextRead]_vars

-----------------------------------------------------------------------------
\* Properties of the write operations, checked under Spec.

Info == getColumnInfo(table.typ)

\* The statement and arguments the last operation sent.
Sent == calls[1]

IndexSeq(q) == [i \in 1..Len(q) |-> i]

\* The positions of the pieces of q accepted by Test, in order.
Positions(q, Test(_)) == SelectSeq(IndexSeq(q), LAMBDA i : Test(q[i]))

\* The column list of an INSERT statement: the pieces between "(" and
\* ") VALUES" other than the separators.
ListedColumns(q) ==
    LET open == Positions(q, LAMBDA piece : piece = "(")
        close == Positions(q, LAMBDA piece : piece = ") VALUES")
    IN  IF open = <<>> \/ close = <<>> THEN <<>>
        ELSE SelectSeq(SubSeq(q, open[1] + 1, close[1] - 1), LAMBDA piece : piece # ", ")

\* The column each placeholder of a statement stands for, in statement order:
\* the j-th "?" of a VALUES list stands for the j-th listed column, a " = ?"
\* for the column written just before it.
PlaceholderColumns(q) ==
    LET marks == Positions(q, LAMBDA piece : piece \in {"?", " = ?"})
        listed == ListedColumns(q)
        nth(i) == Cardinality({j \in 1..i : q[j] = "?"})
    IN  [k \in 1..Len(marks) |->
            IF q[marks[k]] = " = ?" THEN q[marks[k] - 1]
            ELSE IF nth(marks[k]) \in DOMAIN listed THEN listed[nth(marks[k])]
            ELSE "(no column)"]

\* The persisted columns other than c, in metadata order.
NamesExcept(c) == SelectSeq(Info.names, LAMBDA n : n # c)

\* "c1 = ?, c2 = ?, ..." for every column of a list.
AssignmentList(list) ==
    [p \in 1..(3 * Len(list) - 1) |->
        IF p % 3 = 1 THEN list[(p + 2) \div 3]
        ELSE IF p % 3 = 2 THEN " = ?" ELSE ", "]

\* The parameter the value codec produces for a column of the record passed in.
Encoded(c) == getFieldValueByName(preRecord, Info, c).p

ArgsEncode(columns) ==
    /\ Len(Sent.a) = Len(columns)
    /\ \A k \in 1..Len(columns) : Sent.a[k] = Encoded(columns[k])

AIWasZero == aiIsZero(Info, preRecord)

\* C1 (as claimed): for Insert and Save on a record whose auto-increment
\* field is zero, the field is written only after Exec returned without
\* error; whenever Exec returns an error the operation returns that error,
\* does not read the Exec result and leaves the field at zero.
C1_BackWriteOnlyAfterExecSucceeds ==
    (op \in {"Insert", "Save"} /\ calls # <<>> /\ AIWasZero) =>
        /\ wroteBack => ~exec.err
        /\ exec.err => /\ ret = "err:exec"
                       /\ ~readResult
                       /\ record[Info.aiName] = 0

\* C3 (as claimed): for a type with an auto-increment column, Insert of a
\* record whose field is zero lists every column but that one, with their
\* arguments, and after a successful Exec sets the field to the last-inserted
\* id; Insert of a record whose field is non-zero lists the column with the
\* field's value as argument and leaves the field as it was.
C3_InsertAutoIncrement_AsClaimed ==
    (op = "Insert" /\ Info.aiName # "" /\ calls # <<>>) =>
        IF AIWasZero
        THEN /\ ListedColumns(Sent.q) = NamesExcept(Info.aiName)
             /\ ArgsEncode(NamesExcept(Info.aiName))
             /\ ~exec.err => (wroteBack /\ record[Info.aiName] = exec.id)
        ELSE /\ ListedColumns(Sent.q) = Info.names
             /\ ArgsEncode(Info.names)
             /\ Sent.a[IndexOfString(Info.names, Info.aiName)] = Val(preRecord[Info.aiName])
             /\ record = preRecord

\* C3 (amended): as claimed, except that the field is set after a successful
\* Exec only when the result's LastInsertId succeeds too; when LastInsertId
\* fails, Insert returns that error and the field stays zero.
C3_InsertAutoIncrement ==
    (op = "Insert" /\ Info.aiName # "" /\ calls # <<>>) =>
        IF AIWasZero
        THEN /\ ListedColumns(Sent.q) = NamesExcept(Info.aiName)
             /\ ArgsEncode(NamesExcept(Info.aiName))
             /\ (~exec.err /\ ~exec.idErr) =>
                    (wroteBack /\ ret = "nil" /\ record = [preRecord EXCEPT ![Info.aiName] = exec.id])
             /\ (~exec.err /\ exec.idErr) =>
                    (~wroteBack /\ ret = "err:lastinsertid" /\ record = preRecord)
        ELSE /\ ListedColumns(Sent.q) = Info.names
             /\ ArgsEncode(Info.names)
             /\ Sent.a[IndexOfString(Info.names, Info.aiName)] = Val(preRecord[Info.aiName])
             /\ record = preRecord

\* Insert of a record with a zero auto-increment field got an id from the
\* executor and wrote it back.
C3_Witness ==
    /\ op = "Insert" /\ AIWasZero /\ ret = "nil"
    /\ wroteBack /\ exec.id # 0 /\ record[Info.aiName] = exec.id

\* C6: Save on a "mysql" Table sends the Insert statement followed by
\* " ON DUPLICATE KEY UPDATE " and "name = ?" for every persisted column; on
\* a "sqlite3" Table the Insert statement with its leading INSERT INTO
\* replaced by INSERT OR REPLACE INTO; on any other driver it panics and the
\* executor receives no call.
C6_SaveDispatch ==
    op = "Save" =>
        LET insert == prepareInsertQuery(table, preRecord).query
        IN  CASE table.driverName = "mysql" ->
                   /\ Len(calls) <= 1
                   /\ calls = <<>> <=> ret = "err:encode"
                   /\ calls # <<>> =>
                        /\ Sent.m = "Exec"
                        /\ Sent.q = insert \o <<" ON DUPLICATE KEY UPDATE ">>
                                    \o AssignmentList(Info.names)
              [] table.driverName = "sqlite3" ->
                   /\ Len(calls) <= 1
                   /\ calls = <<>> <=> ret = "err:encode"
                   /\ calls # <<>> =>
                        /\ Sent.m = "Exec"
                        /\ insert[1] = "INSERT INTO"
                        /\ Sent.q = <<"INSERT OR REPLACE INTO">> \o Tail(insert)
              [] OTHER -> ret = "panic" /\ calls = <<>>

\* Save on a Table of a driver other than mysql and sqlite3 failed.
C6_Witness == op = "Save" /\ table.driverName = "postgres" /\ ret = "panic"

\* C7: Delete with an empty predicate and Update of a type without primary
\* key panic without any call on the executor; Delete with a non-empty
\* predicate issues exactly one DELETE FROM <table> WHERE <predicate>.
C7_ProgrammerErrorsNeverReachExecutor ==
    /\ (op = "Delete" /\ pred.where = "") => (ret = "panic" /\ calls = <<>>)
    /\ (op = "Update" /\ Info.pkNames = <<>>) => (ret = "panic" /\ calls = <<>>)
    /\ (op = "Delete" /\ pred.where # "") =>
          /\ ret # "panic"
          /\ calls = <<Exec(<<"DELETE FROM ", table.name, " WHERE ", pred.where>>, pred.args)>>

\* Delete was called with an empty predicate.
C7_Witness == op = "Delete" /\ pred.where = "" /\ ret = "panic" /\ calls = <<>>

\* The columns the placeholders of each write statement stand for.
PlaceholdersInOrder ==
    LET inserted == IF AIWasZero THEN NamesExcept(Info.aiName) ELSE Info.names
    IN  CASE op = "Insert" -> PlaceholderColumns(Sent.q) = inserted
          [] op = "Update" -> PlaceholderColumns(Sent.q) = Info.notPKNames \o Info.pkNames
          [] op = "Save" -> PlaceholderColumns(Sent.q) = inserted \o Info.names

WroteStatement ==
    /\ calls # <<>>
    /\ op \in {"Insert", "Update"} \/ (op = "Save" /\ table.driverName = "mysql")

\* C9: in every statement of Insert, Update and mysql Save the
\* number of placeholders equals the number of arguments and the k-th
\* argument is the encoded value of the column of the k-th placeholder, the
\* columns being in metadata order.
C9_ParametersLineUp ==
    WroteStatement =>
        /\ PlaceholdersInOrder
        /\ ArgsEncode(PlaceholderColumns(Sent.q))

-----------------------------------------------------------------------------
\* Properties of the read operations, checked under SpecRead.

IsRead == op \in {"Select", "SelectOne"}

\* The last read fetched at least one row, each accepted by Test.
FetchedOnly(Test(_)) ==
    /\ IsRead /\ ~cursor.err /\ cursor.rows # <<>>
    /\ \A k \in 1..Len(cursor.rows) : Test(cursor.rows[k])

\* The rows the write path stores.
StoredRows == { StoredRow(table.typ, r) : r \in SampleRecs(table.typ) }

NullableColumns == { c \in Columns(table.typ) : HasString(Info.nullableNames, c) }
JSONColumns == { c \in Columns(table.typ) : HasString(Info.jsonNames, c) }

\* The record the last read decoded from the k-th row of its cursor, when
\* it returned nil.
Fetched(k) == IF op = "SelectOne" THEN target ELSE records[Len(preRecords) + k]

\* C2: SelectOne copies what it decoded into the caller's target only when
\* it returns nil; whenever it fails the target is as it was before the call,
\* and when no row matches the error returned is sql.ErrNoRows.
C2_SelectOneCommitsOnlyOnSuccess ==
    op = "SelectOne" =>
        /\ ret # "nil" => target = preTarget
        /\ ret = "nil" => /\ Len(cursor.rows) = 1
                          /\ StoredRow(table.typ, target) = cursor.rows[1]
        /\ (~cursor.err /\ cursor.rows = <<>>) <=> ret = "sql.ErrNoRows"

\* SelectOne found no row while the caller's target held a non-zero record.
C2_Witness ==
    /\ op = "SelectOne" /\ ret = "sql.ErrNoRows"
    /\ preTarget # ZeroRec(table.typ) /\ target = preTarget

\* C4 (as claimed): a JSON-encoded nullable column is read through the JSON
\* path only, so reading stored rows whose JSON nullable column holds valid
\* non-NULL JSON completes without panic, the field holding the deserialized
\* value.
C4_JSONNullableReadsWithoutPanic ==
    LET both == JSONColumns \cap NullableColumns
        valid(row) == /\ row \in StoredRows
                      /\ \A c \in both : row[c].t = "bytes" /\ ~Unmarshal(row[c].s).err
    IN  (both # {} /\ FetchedOnly(valid)) =>
            /\ ret = "nil"
            /\ \A k \in 1..Len(cursor.rows) : \A c \in both :
                  Fetched(k)[c] = Unmarshal(cursor.rows[k][c].s).v

\* C5 (as claimed): a nullable field left at its zero value is encoded as
\* NULL by the write path, and reading back the stored row of a record whose
\* nullable fields are all zero succeeds and yields zero fields.
C5_NullableLaw ==
    LET zero == StoredRow(table.typ, ZeroRec(table.typ))
    IN  /\ \A c \in NullableColumns : zero[c] = Null
        /\ (NullableColumns # {} /\ FetchedOnly(LAMBDA row : row = zero)) =>
              /\ ret = "nil"
              /\ \A k \in 1..Len(cursor.rows) : \A c \in NullableColumns : Fetched(k)[c] = 0

\* C8: a successful Select leaves the records the collection held in place
\* and in order, followed by one record per row of the cursor in cursor
\* order; the length of the collection is its initial length plus the rows
\* the successful Selects returned.
C8_SelectAppends ==
    /\ Len(records) = initialLen + returned
    /\ (op = "Select" /\ ret = "nil") =>
          /\ Len(records) = Len(preRecords) + Len(cursor.rows)
          /\ SubSeq(records, 1, Len(preRecords)) = preRecords
          /\ \A k \in 1..Len(cursor.rows) :
                StoredRow(table.typ, records[Len(preRecords) + k]) = cursor.rows[k]
    /\ (op = "Select" /\ ret # "nil") => records = preRecords

\* Select appended two different rows to a collection that held a record.
C8_Witness ==
    /\ op = "Select" /\ ret = "nil"
    /\ Len(preRecords) >= 1 /\ Len(cursor.rows) = 2
    /\ cursor.rows[1] # cursor.rows[2]
    /\ records[Len(records)] # preRecords[1]

\* C10 (as claimed): for a type whose nullable columns are all scalars of the
\* accepted kinds, reading stored rows completes without panic; a NULL column
\* leaves its field zero and any other value is copied into the field.
C10_NullableScalarsReadWithoutPanic ==
    (JSONColumns = {} /\ NullableColumns # {} /\ FetchedOnly(LAMBDA row : row \in StoredRows)) =>
        /\ ret = "nil"
        /\ \A k \in 1..Len(cursor.rows) : \A c \in NullableColumns :
              IF cursor.rows[k][c] = Null THEN Fetched(k)[c] = 0
              ELSE cursor.rows[k][c] = Val(Fetched(k)[c])

====
